---- MODULE Spec2Model ----
(***************************************************************************)
(* A model of broot's BrowserState (src/browser/browser_state.rs) and of   *)
(* its verb executor (src/browser/browser_verbs.rs): one panel's base      *)
(* tree, optional filtered tree, pending pattern and total-search flag,    *)
(* driven by pattern input, verbs, clicks and idle ticks.                  *)
(*                                                                         *)
(* The Tree, the TreeBuilder and the InputPattern live in modules whose    *)
(* source is not part of the slice; they are modelled from the system      *)
(* description (Tree Model, Tree Builder, Pattern Matcher) over one fixed  *)
(* small file system.                                                      *)
(***************************************************************************)
EXTENDS Integers, Sequences, FiniteSets, TLC

\* height of the terminal screen, an input of every operation
ScreenHeight == 6

\* BrowserState::page_height
page_height == ScreenHeight - 2

----------------------------------------------------------------------------
(* The file system the trees are built from, in pre-order.                 *)

NoPattern == ""
Patterns == {"x", "z"}

Entries ==
  << [path |-> "/p",      line_type |-> "Dir",           depth |-> 0, parent |-> 0, name |-> <<>>],
     [path |-> "/p/a",    line_type |-> "Dir",           depth |-> 1, parent |-> 1, name |-> <<"a">>],
     [path |-> "/p/a/x",  line_type |-> "File",          depth |-> 2, parent |-> 2, name |-> <<"x">>],
     [path |-> "/p/a/xy", line_type |-> "File",          depth |-> 2, parent |-> 2, name |-> <<"x", "y">>],
     [path |-> "/p/b",    line_type |-> "SymLinkToDir",  depth |-> 1, parent |-> 1, name |-> <<"b">>],
     [path |-> "/p/y",    line_type |-> "SymLinkToFile", depth |-> 1, parent |-> 1, name |-> <<"y">>],
     [path |-> "/p/yx",   line_type |-> "File",          depth |-> 1, parent |-> 1, name |-> <<"y", "x">>] >>

EntryIds == 1..Len(Entries)

RECURSIVE Ancestors(_)
Ancestors(i) ==
  IF Entries[i].parent = 0 THEN {}
  ELSE {Entries[i].parent} \cup Ancestors(Entries[i].parent)

Children(d) == {i \in EntryIds : Entries[i].parent = d}

LastDesc(d) ==
  LET below == {i \in EntryIds : d \in Ancestors(i)} \cup {d}
  IN  CHOOSE m \in below : \A k \in below : k <= m

SetMin(S) == CHOOSE m \in S : \A k \in S : m <= k

\* paths outside the tree: its parent, and what the link to a file points to;
\* the link to a directory points back to the root of the tree
NoPath == "(none)"

path_parent(path) ==
  CASE path = "/"                                 -> NoPath
    [] path \in {"/p", "/q"}                      -> "/"
    [] path \in {"/p/a", "/p/b", "/p/y", "/p/yx"} -> "/p"
    [] path \in {"/p/a/x", "/p/a/xy"}             -> "/p/a"
    [] path = "/q/f"                              -> "/q"

is_dir(path) == path \in {"/", "/p", "/p/a", "/p/b", "/q"}

closest_dir(path) == IF is_dir(path) THEN path ELSE path_parent(path)

\* TreeLine::target: where a link points to, the path of the line otherwise
target(line) ==
  CASE line.line_type = "SymLinkToDir"  -> "/p"
    [] line.line_type = "SymLinkToFile" -> "/q/f"
    [] OTHER                            -> line.path

without_pattern(options) == [options EXCEPT !.pattern = NoPattern]

----------------------------------------------------------------------------
(* Pattern Matcher / Scorer: a one-letter pattern matches a name holding   *)
(* the letter; an exact name scores above a prefix, a prefix above a       *)
(* scattered match.  0 is "no match".                                      *)

InName(pat, name) == \E k \in 1..Len(name) : name[k] = pat

Score(pat, i) ==
  LET name == Entries[i].name
  IN  IF pat = NoPattern \/ ~InName(pat, name) THEN 0
      ELSE IF name = <<pat>> THEN 30
      ELSE IF name[1] = pat THEN 20
      ELSE 10

Matches(pat) == {i \in EntryIds : Score(pat, i) > 0}

\* the entries a build may show: everything without a pattern, the matches
\* and their ancestors with one
Candidates(pat) ==
  IF pat = NoPattern THEN EntryIds
  ELSE {1} \cup Matches(pat) \cup UNION {Ancestors(i) : i \in Matches(pat)}

----------------------------------------------------------------------------
(* Tree Builder: keeps the root, then adds entries (with their ancestors)  *)
(* while the line budget allows, breadth first without a pattern and best  *)
(* score first with one.  Without a pattern a directory shown with only    *)
(* some of its children gets a Pruning-marker line.  An exhaustive build   *)
(* ignores the budget.                                                     *)

Rank(pat, i) ==
  IF pat = NoPattern THEN Entries[i].depth * Len(Entries) + i
  ELSE (30 - Score(pat, i)) * Len(Entries) + i

Pruned(pat, S) ==
  IF pat # NoPattern THEN {}
  ELSE {d \in S : /\ Children(d) \cap S # {}
                  /\ Children(d) \ S # {}}

LineCount(pat, S) == Cardinality(S) + Cardinality(Pruned(pat, S))

RECURSIVE Fill(_, _, _, _)
Fill(pat, budget, S, todo) ==
  IF todo = {} THEN S
  ELSE LET m  == CHOOSE i \in todo : \A k \in todo : Rank(pat, i) <= Rank(pat, k)
           S2 == S \cup {m} \cup Ancestors(m)
       IN  IF LineCount(pat, S2) <= budget
           THEN Fill(pat, budget, S2, todo \ {m})
           ELSE Fill(pat, budget, S, todo \ {m})

Kept(pat, total, budget) ==
  IF total THEN Candidates(pat)
  ELSE Fill(pat, budget, {1},
            (IF pat = NoPattern THEN EntryIds ELSE Matches(pat)) \ {1})

EntryLine(pat, i) ==
  [path |-> Entries[i].path, line_type |-> Entries[i].line_type,
   depth |-> Entries[i].depth, score |-> Score(pat, i),
   direct_match |-> Score(pat, i) > 0]

PruningLine(d) ==
  [path |-> Entries[d].path, line_type |-> "Pruning",
   depth |-> Entries[d].depth + 1, score |-> 0, direct_match |-> FALSE]

\* pre-order keys: an entry before the marker that closes its directory
LineKeys(pat, S) ==
  {2 * i : i \in S} \cup {2 * LastDesc(d) + 1 : d \in Pruned(pat, S)}

LineOfKey(pat, S, k) ==
  IF k % 2 = 0 THEN EntryLine(pat, k \div 2)
  ELSE PruningLine(CHOOSE d \in Pruned(pat, S) : 2 * LastDesc(d) + 1 = k)

RECURSIVE LinesFrom(_, _, _)
LinesFrom(pat, S, keys) ==
  IF keys = {} THEN <<>>
  ELSE LET k == SetMin(keys)
       IN  <<LineOfKey(pat, S, k)>> \o LinesFrom(pat, S, keys \ {k})

\* TreeBuilder::build, when it is not interrupted
BuildTree(options, total, budget) ==
  LET pat == options.pattern
      S   == Kept(pat, total, budget)
  IN  [lines        |-> LinesFrom(pat, S, LineKeys(pat, S)),
       selection    |-> 0,
       scroll       |-> 0,
       options      |-> options,
       total_search |-> total,
       git_status   |-> IF options.show_git_file_info THEN "NotComputed" ELSE "None",
       sums         |-> {}]

\* TreeBuilder::build on any directory of the file system: below the root of
\* the file system, the directory and what it holds, in pre-order, within the
\* budget unless the search is total
BuildTreeOn(path, options, total, budget) ==
  IF path = Entries[1].path THEN BuildTree(options, total, budget)
  ELSE LET pat   == options.pattern
           r     == CHOOSE i \in EntryIds : Entries[i].path = path
           sub   == {i \in EntryIds : r \in Ancestors(i)}
           S     == {r} \cup
                    {i \in sub : \/ pat = NoPattern
                                 \/ Score(pat, i) > 0
                                 \/ \E k \in sub : i \in Ancestors(k) /\ Score(pat, k) > 0}
           all   == LinesFrom(pat, S, {2 * i : i \in S})
           kept  == IF total \/ Len(all) <= budget THEN all ELSE SubSeq(all, 1, budget)
       IN  [lines        |-> [n \in 1..Len(kept) |->
                               [kept[n] EXCEPT !.depth = @ - Entries[r].depth]],
            selection    |-> 0,
            scroll       |-> 0,
            options      |-> options,
            total_search |-> total,
            git_status   |-> IF options.show_git_file_info THEN "NotComputed" ELSE "None",
            sums         |-> {}]

----------------------------------------------------------------------------
(* Tree: selection and scroll.  Indexes are 0-based as in the code.        *)

NbLines(t) == Len(t.lines)
LineAt(t, idx) == t.lines[idx + 1]
is_selectable(line) == line.line_type # "Pruning"
selected_line(t) == LineAt(t, t.selection)
Indexes(t) == 0..(NbLines(t) - 1)
Selectable(t) == {i \in Indexes(t) : is_selectable(LineAt(t, i))}

Max(a, b) == IF a >= b THEN a ELSE b
Min(a, b) == IF a <= b THEN a ELSE b

make_selection_visible(t, ph) ==
  IF t.selection >= t.scroll /\ t.selection < t.scroll + ph THEN t
  ELSE IF NbLines(t) > ph
       THEN [t EXCEPT !.scroll = Max(0, Min(t.selection - (ph \div 2), NbLines(t) - ph))]
       ELSE [t EXCEPT !.scroll = 0]

\* the next selectable line from idx in direction dy (+1 / -1), cycling
RECURSIVE NextSelectable(_, _, _, _)
NextSelectable(t, idx, dy, fuel) ==
  LET n == (idx + NbLines(t) + dy) % NbLines(t)
  IN  IF fuel = 0 \/ is_selectable(LineAt(t, n)) THEN n
      ELSE NextSelectable(t, n, dy, fuel - 1)

move_selection(t, dy, ph) ==
  make_selection_visible(
    [t EXCEPT !.selection = NextSelectable(t, t.selection, dy, NbLines(t))], ph)

select_visible_line(t, ph) ==
  IF t.selection >= t.scroll /\ t.selection < t.scroll + ph THEN t
  ELSE LET first == IF is_selectable(LineAt(t, t.scroll)) THEN t.scroll
                    ELSE NextSelectable(t, t.scroll, 1, NbLines(t))
       IN  [t EXCEPT !.selection = first]

try_scroll(t, dy, ph) ==
  select_visible_line(
    [t EXCEPT !.scroll = Max(0, Min(t.scroll + dy, NbLines(t) - ph))], ph)

try_select_y(t, y) ==
  LET idx == y + t.scroll
  IN  IF idx \in Indexes(t) /\ is_selectable(LineAt(t, idx))
      THEN [t EXCEPT !.selection = idx]
      ELSE t

try_select_first(t) ==
  IF Selectable(t) = {} THEN t
  ELSE [t EXCEPT !.selection = SetMin(Selectable(t)), !.scroll = 0]

SetMax(S) == CHOOSE m \in S : \A k \in S : k <= m

\* the old signature, without a page height: the scroll is left alone
try_select_last_noscroll(t) ==
  IF Selectable(t) = {} THEN t
  ELSE [t EXCEPT !.selection = SetMax(Selectable(t))]

try_select_last(t, ph) ==
  IF Selectable(t) = {} THEN t
  ELSE make_selection_visible(try_select_last_noscroll(t), ph)

IsMatchLine(t, i) ==
  is_selectable(LineAt(t, i)) /\ LineAt(t, i).direct_match /\ LineAt(t, i).score > 0

RECURSIVE NextMatch(_, _, _, _)
NextMatch(t, idx, dy, fuel) ==
  LET n == (idx + NbLines(t) + dy) % NbLines(t)
  IN  IF fuel = 0 THEN t.selection
      ELSE IF IsMatchLine(t, n) THEN n
      ELSE NextMatch(t, n, dy, fuel - 1)

try_select_next_match(t) ==
  [t EXCEPT !.selection = NextMatch(t, t.selection, 1, NbLines(t))]

try_select_previous_match(t) ==
  [t EXCEPT !.selection = NextMatch(t, t.selection, -1, NbLines(t))]

\* the best score wins; between equal scores the shallower line, then the first
try_select_best_match(t) ==
  LET cands == {i \in Selectable(t) : LineAt(t, i).score > 0}
      Better(i, j) ==
        \/ LineAt(t, i).score > LineAt(t, j).score
        \/ /\ LineAt(t, i).score = LineAt(t, j).score
           /\ \/ LineAt(t, i).depth < LineAt(t, j).depth
              \/ LineAt(t, i).depth = LineAt(t, j).depth /\ i <= j
  IN  IF cands = {} THEN t
      ELSE [t EXCEPT !.selection = CHOOSE i \in cands : \A j \in cands : Better(i, j)]

try_select_path(t, path) ==
  LET hits == {i \in Selectable(t) : LineAt(t, i).path = path}
  IN  IF hits = {} THEN t ELSE [t EXCEPT !.selection = SetMin(hits)]

----------------------------------------------------------------------------
(* Tree: outstanding directory sums and git status.                        *)

needs_sum(options) == options.show_sizes \/ options.sort = "Size"

MissingSumDirs(t) ==
  {i \in Indexes(t) : i >= 1 /\ LineAt(t, i).line_type = "Dir" /\ i \notin t.sums}

has_dir_missing_sum(t) == needs_sum(t.options) /\ MissingSumDirs(t) # {}

is_missing_git_status_computation(t) == t.git_status = "NotComputed"

\* one directory per call; an interrupted computation yields no sum
fetch_some_missing_dir_sum(t, interrupted) ==
  IF ~has_dir_missing_sum(t) \/ interrupted THEN t
  ELSE [t EXCEPT !.sums = @ \cup {SetMin(MissingSumDirs(t))}]

\* git::get_tree_status: a status, or nothing yet when interrupted
get_tree_status(interrupted) == IF interrupted THEN "NotComputed" ELSE "Done"

----------------------------------------------------------------------------
(* BrowserState.                                                           *)

VARIABLES
  tree,                   \* the base tree
  filtered_tree,          \* Option<Tree>: NoTree or a tree
  pending_pattern,        \* a pattern not yet applied, NoPattern when none
  total_search_required,  \* whether the pending pattern is to be a total search
  last,                   \* the last operation: its name, entry point, input and outcome
  prev,                   \* the four fields as they were before the last operation
  lastSubmitted,          \* the pattern most recently submitted to the state
  snap,                   \* base selection and scroll just before the filtered tree came up
                          \* (kept while there is one and in the step that clears it)
  phase,                  \* progress of "pattern submitted, then cleared before it was built"
  orig,                   \* base selection when that pattern was submitted (0 when idle)
  new_state,              \* the state a NewState outcome carries, NoState otherwise
  hist                    \* the option-changing verbs applied so far, with the options
                          \* before and after each (read by the properties only)

vars == <<tree, filtered_tree, pending_pattern, total_search_required,
          last, prev, lastSubmitted, snap, phase, orig, new_state, hist>>

NoTree == [absent |-> TRUE]
NoState == [absent |-> TRUE]

\* TreeOptions of the states explored: with and without sizes and git information
OptionsFor(rich) ==
  [pattern |-> NoPattern, sort |-> "None", show_sizes |-> rich,
   show_git_file_info |-> rich, show_hidden |-> FALSE, only_folders |-> FALSE,
   show_counts |-> FALSE, show_dates |-> FALSE, filter_by_git_status |-> FALSE,
   respect_git_ignore |-> FALSE, show_permissions |-> FALSE, trim_root |-> FALSE]

Cur ==
  [tree |-> tree, filtered_tree |-> filtered_tree,
   pending_pattern |-> pending_pattern,
   total_search_required |-> total_search_required]

\* a new that builds the base tree exhaustively
NewState_exhaustive(options, pending) ==
  [tree |-> BuildTree([options EXCEPT !.pattern = NoPattern], TRUE, page_height),
   filtered_tree |-> NoTree,
   pending_pattern |-> pending,
   total_search_required |-> FALSE]

\* a new that leaves the pattern in the options of the base tree
NewState_keeps_pattern(options, pending) ==
  [tree |-> BuildTree(options, FALSE, page_height),
   filtered_tree |-> NoTree,
   pending_pattern |-> pending,
   total_search_required |-> FALSE]

\* BrowserState::new: the pattern of the options becomes the pending pattern
NewState(options, pending) ==
  [tree |-> BuildTree([options EXCEPT !.pattern = NoPattern], FALSE, page_height),
   filtered_tree |-> NoTree,
   pending_pattern |-> pending,
   total_search_required |-> FALSE]

Init ==
  \E rich \in BOOLEAN, pat \in Patterns \cup {NoPattern} :
    LET s == NewState([OptionsFor(rich) EXCEPT !.pattern = pat], pat)
    IN  /\ tree = s.tree
        /\ filtered_tree = s.filtered_tree
        /\ pending_pattern = s.pending_pattern
        /\ total_search_required = s.total_search_required
        /\ last = [op |-> "new", via |-> "new", arg |-> pat, result |-> "NewState"]
        /\ prev = s
        /\ lastSubmitted = pat
        /\ snap = [selection |-> 0, scroll |-> 0]
        /\ phase = "idle"
        /\ orig = 0
        /\ new_state = NoState
        /\ hist = <<>>

displayed_tree == IF filtered_tree # NoTree THEN filtered_tree ELSE tree

\* Tree::root: the path of the first line
root(t) == LineAt(t, 0).path

\* a new that answers a builder that could not be made with no state at all
new_swallows_error(path, options, builderOk, interrupted) ==
  IF ~builderOk \/ interrupted THEN [kind |-> "OkNone"]
  ELSE [kind  |-> "OkSome",
        state |-> [root |-> path,
                   options |-> [options EXCEPT !.pattern = NoPattern],
                   filtered_tree |-> NoTree,
                   pending_pattern |-> options.pattern,
                   total_search_required |-> FALSE]]

\* BrowserState::new as the Result<Option<BrowserState>> it returns: the builder
\* may fail to be made, and its build gives nothing when it is interrupted.  The
\* tree of the new state is given by its root and its options.
new(path, options, builderOk, interrupted) ==
  IF ~builderOk THEN [kind |-> "Err"]
  ELSE IF interrupted THEN [kind |-> "OkNone"]
  ELSE [kind  |-> "OkSome",
        state |-> [root |-> path,
                   options |-> [options EXCEPT !.pattern = NoPattern],
                   filtered_tree |-> NoTree,
                   pending_pattern |-> options.pattern,
                   total_search_required |-> FALSE]]

\* a displayed_tree_mut that always hands out the base tree
displayed_tree_mut_always_base == FALSE

\* displayed_tree_mut: whether the mutable reference is to the filtered tree
displayed_tree_mut_is_filtered == filtered_tree # NoTree

displayed_tree_mut ==
  IF displayed_tree_mut_is_filtered THEN filtered_tree ELSE tree

\* writing through the reference displayed_tree_mut returned
SetDisplayed(t) ==
  IF displayed_tree_mut_is_filtered
  THEN filtered_tree' = t /\ UNCHANGED tree
  ELSE tree' = t /\ UNCHANGED filtered_tree

\* an outcome that carries no state
Did(op, via, arg, result) ==
  /\ last' = [op |-> op, via |-> via, arg |-> arg, result |-> result]
  /\ new_state' = NoState

\* AppStateCmdResult::from_optional_state: the outcome made of what new returned
from_optional_state(op, via, arg, os, in_new_panel) ==
  /\ last' = [op |-> op, via |-> via, arg |-> arg,
              result |-> CASE os.kind = "OkSome" -> "NewState"
                           [] os.kind = "OkNone" -> "Keep"
                           [] os.kind = "Err"    -> "DisplayError"]
  /\ new_state' = IF os.kind = "OkSome"
                  THEN [state |-> os.state, in_new_panel |-> in_new_panel]
                  ELSE NoState

\* what the input of a dispatch was: whether the fallible call it makes worked
Arg(ok) == IF ok THEN "" ELSE "failed"

\* with_new_options: a new state on the same root, with the displayed tree's
\* options changed; the state itself is left alone
with_new_options(op, via, options, in_new_panel, builderOk) ==
  /\ UNCHANGED <<tree, filtered_tree, pending_pattern, total_search_required>>
  /\ from_optional_state(op, via, Arg(builderOk),
                         new(root(displayed_tree), options, builderOk, FALSE),
                         in_new_panel)

----------------------------------------------------------------------------
(* on_pattern and on_click.                                                *)

\* an on_pattern that does not replace a pattern that is still pending
on_pattern_keeps_pending(pat) ==
  /\ filtered_tree' = IF pat = NoPattern THEN NoTree ELSE filtered_tree
  /\ pending_pattern' = IF pat # NoPattern /\ pending_pattern # NoPattern
                        THEN pending_pattern ELSE pat
  /\ UNCHANGED <<tree, total_search_required>>
  /\ Did("on_pattern", "on_pattern", pat, "Keep")

\* an on_pattern that drops the filtered tree on an empty pattern but leaves
\* the pending pattern in place
on_pattern_clear_leaves_pending(pat) ==
  /\ filtered_tree' = IF pat = NoPattern THEN NoTree ELSE filtered_tree
  /\ pending_pattern' = IF pat = NoPattern THEN pending_pattern ELSE pat
  /\ UNCHANGED <<tree, total_search_required>>
  /\ Did("on_pattern", "on_pattern", pat, "Keep")

on_pattern(pat) ==
  /\ filtered_tree' = IF pat = NoPattern THEN NoTree ELSE filtered_tree
  /\ pending_pattern' = pat
  /\ UNCHANGED <<tree, total_search_required>>
  /\ Did("on_pattern", "on_pattern", pat, "Keep")

\* a click that selects in the base tree whatever is displayed
on_click_in_base(y) ==
  /\ tree' = try_select_y(tree, y)
  /\ UNCHANGED <<filtered_tree, pending_pattern, total_search_required>>
  /\ Did("click", "on_click", "", "Keep")

on_click(y) ==
  /\ SetDisplayed(try_select_y(displayed_tree_mut, y))
  /\ UNCHANGED <<pending_pattern, total_search_required>>
  /\ Did("click", "on_click", "", "Keep")

----------------------------------------------------------------------------
(* on_internal (browser_state.rs): the internals that act on the state.    *)

\* a back that drops the filtered tree without carrying its selection over
InternalBack_NoCarry ==
  /\ IF filtered_tree # NoTree
     THEN /\ UNCHANGED tree
          /\ filtered_tree' = NoTree
          /\ Did("back", "on_internal", "", "Keep")
     ELSE IF tree.selection > 0
     THEN /\ tree' = [tree EXCEPT !.selection = 0]
          /\ UNCHANGED filtered_tree
          /\ Did("back", "on_internal", "", "Keep")
     ELSE /\ UNCHANGED <<tree, filtered_tree>>
          /\ Did("back", "on_internal", "", "PopState")
  /\ UNCHANGED <<pending_pattern, total_search_required>>

\* a back that carries the selection over as an index instead of as a path
InternalBack_CopiesIndex ==
  /\ IF filtered_tree # NoTree
     THEN /\ tree' = [tree EXCEPT !.selection = filtered_tree.selection]
          /\ filtered_tree' = NoTree
          /\ Did("back", "on_internal", "", "Keep")
     ELSE IF tree.selection > 0
     THEN /\ tree' = [tree EXCEPT !.selection = 0]
          /\ UNCHANGED filtered_tree
          /\ Did("back", "on_internal", "", "Keep")
     ELSE /\ UNCHANGED <<tree, filtered_tree>>
          /\ Did("back", "on_internal", "", "PopState")
  /\ UNCHANGED <<pending_pattern, total_search_required>>

InternalBack ==
  /\ IF filtered_tree # NoTree
     THEN /\ tree' = try_select_path(tree, selected_line(filtered_tree).path)
          /\ filtered_tree' = NoTree
          /\ Did("back", "on_internal", "", "Keep")
     ELSE IF tree.selection > 0
     THEN /\ tree' = [tree EXCEPT !.selection = 0]
          /\ UNCHANGED filtered_tree
          /\ Did("back", "on_internal", "", "Keep")
     ELSE /\ UNCHANGED <<tree, filtered_tree>>
          /\ Did("back", "on_internal", "", "PopState")
  /\ UNCHANGED <<pending_pattern, total_search_required>>

NavInternals ==
  {"line_down", "line_up", "previous_match", "next_match",
   "page_down", "page_up", "select_first", "select_last"}

InternalNavTree(internal, t) ==
  CASE internal = "line_down"      -> move_selection(t, 1, page_height)
    [] internal = "line_up"        -> move_selection(t, -1, page_height)
    [] internal = "previous_match" -> try_select_previous_match(t)
    [] internal = "next_match"     -> try_select_next_match(t)
    [] internal = "page_down"      ->
         IF page_height < NbLines(t) THEN try_scroll(t, page_height, page_height) ELSE t
    [] internal = "page_up"        ->
         IF page_height < NbLines(t) THEN try_scroll(t, -page_height, page_height) ELSE t
    [] internal = "select_first"   -> try_select_first(t)
    [] internal = "select_last"    -> try_select_last(t, page_height)

InternalNav(internal) ==
  /\ SetDisplayed(InternalNavTree(internal, displayed_tree_mut))
  /\ UNCHANGED <<pending_pattern, total_search_required>>
  /\ Did(internal, "on_internal", "", "Keep")

\* a total_search that asks again for a search that was already total
InternalTotalSearch_Again ==
  IF filtered_tree # NoTree
  THEN /\ pending_pattern' = filtered_tree.options.pattern
       /\ total_search_required' = TRUE
       /\ UNCHANGED <<tree, filtered_tree>>
       /\ Did("total_search", "on_internal", "", "Keep")
  ELSE /\ UNCHANGED <<tree, filtered_tree, pending_pattern, total_search_required>>
       /\ Did("total_search", "on_internal", "", "DisplayError")

InternalTotalSearch ==
  IF filtered_tree # NoTree /\ ~filtered_tree.total_search
  THEN /\ pending_pattern' = filtered_tree.options.pattern
       /\ total_search_required' = TRUE
       /\ UNCHANGED <<tree, filtered_tree>>
       /\ Did("total_search", "on_internal", "", "Keep")
  ELSE /\ UNCHANGED <<tree, filtered_tree, pending_pattern, total_search_required>>
       /\ Did("total_search", "on_internal", "", "DisplayError")

\* a sort_by_size that goes on to the next criterion instead of back to none
sort_by_size_cycles(o) ==
  IF o.sort = "Size" THEN [o EXCEPT !.sort = "Date", !.show_sizes = FALSE]
  ELSE [o EXCEPT !.sort = "Size", !.show_sizes = TRUE]

\* the closures on_internal hands to with_new_options
sort_by_count(o) ==
  IF o.sort = "Count" THEN [o EXCEPT !.sort = "None", !.show_counts = FALSE]
  ELSE [o EXCEPT !.sort = "Count", !.show_counts = TRUE]

sort_by_date(o) ==
  IF o.sort = "Date" THEN [o EXCEPT !.sort = "None", !.show_dates = FALSE]
  ELSE [o EXCEPT !.sort = "Date", !.show_dates = TRUE]

sort_by_size(o) ==
  IF o.sort = "Size" THEN [o EXCEPT !.sort = "None", !.show_sizes = FALSE]
  ELSE [o EXCEPT !.sort = "Size", !.show_sizes = TRUE]

no_sort(o) == [o EXCEPT !.sort = "None"]

\* a toggle_hidden that only ever turns the option on
toggle_hidden_sets(o) == [o EXCEPT !.show_hidden = TRUE]

toggle_counts(o) == [o EXCEPT !.show_counts = ~o.show_counts]
toggle_dates(o) == [o EXCEPT !.show_dates = ~o.show_dates]
toggle_files(o) == [o EXCEPT !.only_folders = ~o.only_folders]
toggle_hidden(o) == [o EXCEPT !.show_hidden = ~o.show_hidden]
toggle_git_ignore(o) == [o EXCEPT !.respect_git_ignore = ~o.respect_git_ignore]
toggle_git_file_info(o) == [o EXCEPT !.show_git_file_info = ~o.show_git_file_info]
toggle_git_status(o) ==
  IF o.filter_by_git_status THEN [o EXCEPT !.filter_by_git_status = FALSE]
  ELSE [o EXCEPT !.filter_by_git_status = TRUE, !.show_hidden = TRUE]
toggle_perm(o) == [o EXCEPT !.show_permissions = ~o.show_permissions]
toggle_sizes(o) == [o EXCEPT !.show_sizes = ~o.show_sizes]
toggle_trim_root(o) == [o EXCEPT !.trim_root = ~o.trim_root]

SortInternals == {"sort_by_count", "sort_by_date", "sort_by_size"}

ToggleInternals ==
  {"toggle_counts", "toggle_dates", "toggle_files", "toggle_hidden",
   "toggle_git_ignore", "toggle_git_file_info", "toggle_git_status",
   "toggle_perm", "toggle_sizes", "toggle_trim_root"}

OptionInternals == SortInternals \cup ToggleInternals \cup {"no_sort"}

InternalChange(internal, o) ==
  CASE internal = "sort_by_count"        -> sort_by_count(o)
    [] internal = "sort_by_date"         -> sort_by_date(o)
    [] internal = "sort_by_size"         -> sort_by_size(o)
    [] internal = "no_sort"              -> no_sort(o)
    [] internal = "toggle_counts"        -> toggle_counts(o)
    [] internal = "toggle_dates"         -> toggle_dates(o)
    [] internal = "toggle_files"         -> toggle_files(o)
    [] internal = "toggle_hidden"        -> toggle_hidden(o)
    [] internal = "toggle_git_ignore"    -> toggle_git_ignore(o)
    [] internal = "toggle_git_file_info" -> toggle_git_file_info(o)
    [] internal = "toggle_git_status"    -> toggle_git_status(o)
    [] internal = "toggle_perm"          -> toggle_perm(o)
    [] internal = "toggle_sizes"         -> toggle_sizes(o)
    [] internal = "toggle_trim_root"     -> toggle_trim_root(o)

InternalOptions(internal, bang, ok) ==
  with_new_options(internal, "on_internal",
                   InternalChange(internal, displayed_tree.options), bang, ok)

\* an outcome that leaves the four fields as they are
Outcome(op, via, arg, result) ==
  /\ UNCHANGED <<tree, filtered_tree, pending_pattern, total_search_required>>
  /\ Did(op, via, arg, result)

\* an outcome made of a new state on path, the four fields left as they are
NewOn(op, via, path, options, in_new_panel, builderOk) ==
  /\ UNCHANGED <<tree, filtered_tree, pending_pattern, total_search_required>>
  /\ from_optional_state(op, via, Arg(builderOk),
                         new(path, options, builderOk, FALSE), in_new_panel)

\* a match on the line type that has no arm for links to directories
OpenArm_NoLinkToDir(line_type) ==
  CASE line_type = "File"          -> "file"
    [] line_type = "Dir"           -> "dir"
    [] line_type = "SymLinkToFile" -> "link"
    [] OTHER                       -> "unreachable"

\* the arm of the match on the line type in the two open functions
OpenArm(line_type) ==
  CASE line_type = "File"                    -> "file"
    [] line_type \in {"Dir", "SymLinkToDir"} -> "dir"
    [] line_type = "SymLinkToFile"           -> "link"
    [] OTHER                                 -> "unreachable"

\* a directory opened where it is, the root included
OpenTarget_NoUp(t, line) == target(line)

\* the directory open_selection_stay_in_broot goes to: the target of the
\* selected line, and its parent (when it has one) for the root line
OpenTarget(t, line) ==
  IF t.selection = 0 /\ path_parent(target(line)) # NoPath
  THEN path_parent(target(line))
  ELSE target(line)

\* open_selection_stay_in_broot; ok is the opener's or the builder's success
open_selection_stay_in_broot(op, via, in_new_panel, keep_pattern, ok) ==
  LET t    == displayed_tree
      line == selected_line(t)
      arm  == OpenArm(line.line_type)
  IN  CASE arm = "file" ->
             Outcome(op, via, Arg(ok), IF ok THEN "Keep" ELSE "DisplayError")
        [] arm = "dir" ->
             NewOn(op, via, OpenTarget(t, line),
                       IF keep_pattern THEN t.options ELSE without_pattern(t.options),
                       in_new_panel, ok)
        [] arm = "link" ->
             Outcome(op, via, Arg(ok), IF ok THEN "Keep" ELSE "Err")
        [] arm = "unreachable" ->
             Outcome(op, via, "", "panic")

\* open_selection_quit_broot; ok is the success of make_opener or of the cd verb
open_selection_quit_broot(op, via, ok) ==
  LET line == selected_line(displayed_tree)
      arm  == OpenArm(line.line_type)
  IN  CASE arm \in {"file", "link"} ->
             Outcome(op, via, Arg(ok), IF ok THEN "Launch" ELSE "Err")
        [] arm = "dir" ->
             \E cmd_export_path \in BOOLEAN :
               IF cmd_export_path
               THEN Outcome(op, via, Arg(ok), IF ok THEN "Launch" ELSE "Err")
               ELSE Outcome(op, via, "", "DisplayError")
        [] arm = "unreachable" ->
             Outcome(op, via, "", "panic")

go_to_parent(op, via, in_new_panel, ok) ==
  LET t == displayed_tree
      p == path_parent(selected_line(t).path)
  IN  IF p # NoPath
      THEN NewOn(op, via, p, without_pattern(t.options), in_new_panel, ok)
      ELSE Outcome(op, via, "", "DisplayError")

on_double_click(y, ok) ==
  IF displayed_tree.selection = y
  THEN open_selection_stay_in_broot("double_click", "on_double_click", FALSE, FALSE, ok)
  ELSE Outcome("double_click", "on_double_click", "", "Keep")

\* internal_focus::on_path: a new state on the closest directory, with the
\* display options carried over and the pattern cleared
internal_focus_on_path(op, path, options, in_new_panel, ok) ==
  NewOn(op, "on_internal", closest_dir(path), without_pattern(options),
        in_new_panel, ok)

InternalCopyPath(ok) ==
  Outcome("copy_path", "on_internal", Arg(ok), IF ok THEN "Keep" ELSE "Err")

InternalFocus(bang, ok) ==
  internal_focus_on_path("focus", selected_line(displayed_tree).path,
                         displayed_tree.options, bang, ok)

InternalUpTree(bang, ok) ==
  LET p == path_parent(root(displayed_tree))
  IN  IF p # NoPath
      THEN internal_focus_on_path("up_tree", p, displayed_tree.options, bang, ok)
      ELSE Outcome("up_tree", "on_internal", "", "DisplayError")

\* print_path and print_relative_path: the printer's result, or its error
InternalPrint(internal, ok) ==
  Outcome(internal, "on_internal", Arg(ok), IF ok THEN "Launch" ELSE "Err")

\* internal_focus::new_panel_on_path: a state on the closest directory, for a
\* panel beside this one
new_panel_on_path(op, path, options, ok) ==
  /\ UNCHANGED <<tree, filtered_tree, pending_pattern, total_search_required>>
  /\ last' = [op |-> op, via |-> "on_internal", arg |-> Arg(ok),
              result |-> IF ok THEN "NewPanel" ELSE "DisplayError"]
  /\ new_state' = IF ok
                  THEN [state |-> new(closest_dir(path), without_pattern(options),
                                      TRUE, FALSE).state,
                        in_new_panel |-> TRUE]
                  ELSE NoState

\* panel_left; is_first: the panel is the leftmost one; preview_beside: there
\* are two panels and the other one is the preview
InternalPanelLeft(ok) ==
  \E is_first \in BOOLEAN, preview_beside \in BOOLEAN :
    IF is_first
    THEN IF preview_beside
         THEN Outcome("panel_left", "on_internal", "", "ClosePanel")
         ELSE new_panel_on_path("panel_left", selected_line(displayed_tree).path,
                                displayed_tree.options, ok)
    ELSE Outcome("panel_left", "on_internal", "", "HandleInApp")

\* panel_right; is_last: the panel is the rightmost one
InternalPanelRight(ok) ==
  \E is_last \in BOOLEAN :
    IF is_last
    THEN new_panel_on_path("panel_right", selected_line(displayed_tree).path,
                           displayed_tree.options, ok)
    ELSE Outcome("panel_right", "on_internal", "", "HandleInApp")

\* start_end_panel; arg_edition: the panel was opened to edit an argument;
\* on_root: the invocation came from the input without a path of its own
InternalStartEndPanel(ok) ==
  \E arg_edition \in BOOLEAN, on_root \in BOOLEAN :
    IF arg_edition
    THEN Outcome("start_end_panel", "on_internal", "", "ClosePanel")
    ELSE new_panel_on_path("start_end_panel",
                           IF on_root THEN root(tree)
                           ELSE selected_line(displayed_tree).path,
                           displayed_tree.options, ok)

PanelInternals == {"panel_left", "panel_right", "start_end_panel"}

RerootInternals == {"focus", "up_tree", "open_stay", "open_stay_filter", "parent"}
PrintInternals == {"print_path", "print_relative_path"}

\* on_internal: the internal dispatched, the bang of the invocation, and whether
\* the fallible call the branch makes (tree builder, opener, clipboard, printer)
\* succeeds
on_internal(internal, bang, ok) ==
  CASE internal = "back"             -> InternalBack
    [] internal = "copy_path"        -> InternalCopyPath(ok)
    [] internal = "focus"            -> InternalFocus(bang, ok)
    [] internal = "up_tree"          -> InternalUpTree(bang, ok)
    [] internal = "open_stay"        ->
         open_selection_stay_in_broot(internal, "on_internal", bang, FALSE, ok)
    [] internal = "open_stay_filter" ->
         open_selection_stay_in_broot(internal, "on_internal", bang, TRUE, ok)
    [] internal = "open_leave"       ->
         open_selection_quit_broot(internal, "on_internal", ok)
    [] internal \in NavInternals     -> InternalNav(internal)
    [] internal = "parent"           -> go_to_parent(internal, "on_internal", bang, ok)
    [] internal = "panel_left"       -> InternalPanelLeft(ok)
    [] internal = "panel_right"      -> InternalPanelRight(ok)
    [] internal = "start_end_panel"  -> InternalStartEndPanel(ok)
    [] internal \in PrintInternals   -> InternalPrint(internal, ok)
    [] internal \in OptionInternals  -> InternalOptions(internal, bang, ok)
    [] internal = "total_search"     -> InternalTotalSearch
    [] internal = "quit"             -> Outcome(internal, "on_internal", "", "Quit")

----------------------------------------------------------------------------
(* execute_verb (browser_verbs.rs): the same internals through the verb    *)
(* executor.                                                               *)

\* a back that drops the filtered tree on its way out
VerbBack_DropsFiltered ==
  /\ filtered_tree' = NoTree
  /\ UNCHANGED <<tree, pending_pattern, total_search_required>>
  /\ Did("back", "execute_verb", "", "PopState")

VerbBack ==
  /\ UNCHANGED <<tree, filtered_tree, pending_pattern, total_search_required>>
  /\ Did("back", "execute_verb", "", "PopState")

VerbNavInternals ==
  {"line_down", "line_up", "page_down", "page_up", "select_first", "select_last"}

VerbNavTree(internal, t) ==
  CASE internal = "line_down"    -> move_selection(t, 1, page_height)
    [] internal = "line_up"      -> move_selection(t, -1, page_height)
    [] internal = "page_down"    ->
         IF page_height < NbLines(t) THEN try_scroll(t, page_height, page_height) ELSE t
    [] internal = "page_up"      ->
         IF page_height < NbLines(t) THEN try_scroll(t, -page_height, page_height) ELSE t
    [] internal = "select_first" -> try_select_first(t)
    [] internal = "select_last"  -> try_select_last_noscroll(t)

VerbNav(internal) ==
  /\ SetDisplayed(VerbNavTree(internal, displayed_tree_mut))
  /\ UNCHANGED <<pending_pattern, total_search_required>>
  /\ Did(internal, "execute_verb", "", "Keep")

VerbTotalSearch ==
  IF filtered_tree # NoTree /\ ~filtered_tree.total_search
  THEN /\ pending_pattern' = filtered_tree.options.pattern
       /\ total_search_required' = TRUE
       /\ UNCHANGED <<tree, filtered_tree>>
       /\ Did("total_search", "execute_verb", "", "Keep")
  ELSE /\ UNCHANGED <<tree, filtered_tree, pending_pattern, total_search_required>>
       /\ Did("total_search", "execute_verb", "", "DisplayError")

VerbToggleInternals == ToggleInternals \ {"toggle_counts"}

\* the closures execute_verb hands to with_new_options
VerbChange(internal, o) ==
  CASE internal = "toggle_dates"         -> [o EXCEPT !.show_dates = ~o.show_dates]
    [] internal = "toggle_files"         -> [o EXCEPT !.only_folders = ~o.only_folders]
    [] internal = "toggle_hidden"        -> [o EXCEPT !.show_hidden = ~o.show_hidden]
    [] internal = "toggle_git_ignore"    -> [o EXCEPT !.respect_git_ignore = ~o.respect_git_ignore]
    [] internal = "toggle_git_file_info" -> [o EXCEPT !.show_git_file_info = ~o.show_git_file_info]
    [] internal = "toggle_git_status"    -> [o EXCEPT !.filter_by_git_status = ~o.filter_by_git_status]
    [] internal = "toggle_perm"          -> [o EXCEPT !.show_permissions = ~o.show_permissions]
    [] internal = "toggle_sizes"         -> [o EXCEPT !.show_sizes = ~o.show_sizes]
    [] internal = "toggle_trim_root"     -> [o EXCEPT !.trim_root = ~o.trim_root]

VerbOptions(internal, bang, ok) ==
  with_new_options(internal, "execute_verb",
                   VerbChange(internal, displayed_tree.options), bang, ok)

\* focus_path: a new state on path with the options of the displayed tree,
\* pattern included
focus_path(op, path, t, in_new_panel, ok) ==
  NewOn(op, "execute_verb", path, t.options, in_new_panel, ok)

\* the directory the focus arm goes to: NoPath when there is no parent to unwrap
VerbFocusPath(line) ==
  IF is_dir(target(line)) THEN target(line) ELSE path_parent(target(line))

VerbFocus(bang, ok) ==
  LET path == VerbFocusPath(selected_line(displayed_tree))
  IN  IF path = NoPath
      THEN Outcome("focus", "execute_verb", "", "panic")
      ELSE focus_path("focus", path, displayed_tree, bang, ok)

VerbUpTree(bang, ok) ==
  LET p == path_parent(root(displayed_tree))
  IN  IF p # NoPath
      THEN focus_path("up_tree", p, displayed_tree, bang, ok)
      ELSE Outcome("up_tree", "execute_verb", "", "DisplayError")

VerbPrint(internal, ok) ==
  Outcome(internal, "execute_verb", Arg(ok), IF ok THEN "Launch" ELSE "Err")

VerbRerootInternals == {"focus", "up_tree", "open_stay", "parent"}

\* execute_verb on an invocation that matches the verb
VerbInternal(internal, bang, ok) ==
  CASE internal = "back"                -> VerbBack
    [] internal = "focus"               -> VerbFocus(bang, ok)
    [] internal = "up_tree"             -> VerbUpTree(bang, ok)
    [] internal = "open_stay"           ->
         open_selection_stay_in_broot(internal, "execute_verb", bang, FALSE, ok)
    [] internal = "open_leave"          ->
         open_selection_quit_broot(internal, "execute_verb", ok)
    [] internal \in VerbNavInternals    -> VerbNav(internal)
    [] internal = "parent"              -> go_to_parent(internal, "execute_verb", bang, ok)
    [] internal \in PrintInternals      -> VerbPrint(internal, ok)
    [] internal \in VerbToggleInternals -> VerbOptions(internal, bang, ok)
    [] internal = "total_search"        -> VerbTotalSearch
    [] internal = "quit"                -> Outcome(internal, "execute_verb", "", "Quit")

\* an execute_verb that finds out about the invocation after the handler ran
execute_verb_checks_late(internal, match_error, bang, ok) ==
  IF match_error /\ internal \in VerbNavInternals
  THEN /\ SetDisplayed(VerbNavTree(internal, displayed_tree_mut))
       /\ UNCHANGED <<pending_pattern, total_search_required>>
       /\ Did(internal, "execute_verb", "match_error", "DisplayError")
  ELSE IF match_error
  THEN /\ UNCHANGED <<tree, filtered_tree, pending_pattern, total_search_required>>
       /\ Did(internal, "execute_verb", "match_error", "DisplayError")
  ELSE VerbInternal(internal, bang, ok)

\* execute_verb: an invocation the verb does not accept is answered before
\* anything is dispatched
execute_verb(internal, match_error, bang, ok) ==
  IF match_error
  THEN /\ UNCHANGED <<tree, filtered_tree, pending_pattern, total_search_required>>
       /\ Did(internal, "execute_verb", "match_error", "DisplayError")
  ELSE VerbInternal(internal, bang, ok)

----------------------------------------------------------------------------
(* get_pending_task and do_pending_task.                                   *)

get_pending_task_of(s) ==
  LET shown == IF s.filtered_tree # NoTree THEN s.filtered_tree ELSE s.tree
  IN  IF s.pending_pattern # NoPattern THEN "searching"
      ELSE IF has_dir_missing_sum(shown) THEN "computing stats"
      ELSE IF is_missing_git_status_computation(shown) THEN "computing git status"
      ELSE "None"

get_pending_task == get_pending_task_of(Cur)

\* a search rooted at the selected line instead of the root of the base tree
SearchRoot_Selected == closest_dir(selected_line(tree).path)

\* the root of the search: the root of the base tree
SearchRoot == root(tree)

\* a built tree stored as the builder returned it
Installed_AsBuilt(ft) == ft

\* what do_pending_task does to the tree it got before storing it: the best
\* match selected and scrolled into view
Installed(ft) == make_selection_visible(try_select_best_match(ft), page_height)

\* a rebuild that stores the builder's result even when there is none
ApplyPendingPattern_StoresNone(builderOk, interrupted) ==
  /\ pending_pattern' = NoPattern
  /\ UNCHANGED tree
  /\ IF ~builderOk
     THEN /\ UNCHANGED <<filtered_tree, total_search_required>>
          /\ Did("do_pending_task", "search", pending_pattern, "error")
     ELSE /\ total_search_required' = FALSE
          /\ IF interrupted
             THEN /\ filtered_tree' = NoTree
                  /\ Did("do_pending_task", "search", pending_pattern, "interrupted")
             ELSE /\ filtered_tree' =
                       Installed(
                         BuildTreeOn(SearchRoot,
                                     [tree.options EXCEPT !.pattern = pending_pattern],
                                     total_search_required, page_height))
                  /\ Did("do_pending_task", "search", pending_pattern, "built")

\* the branch of a pending pattern.  builderOk: TreeBuilder::from succeeds;
\* interrupted: the dam interrupts the build, which then returns no tree
ApplyPendingPattern(builderOk, interrupted) ==
  /\ pending_pattern' = NoPattern
  /\ UNCHANGED tree
  /\ IF ~builderOk
     THEN /\ UNCHANGED <<filtered_tree, total_search_required>>
          /\ Did("do_pending_task", "search", pending_pattern, "error")
     ELSE /\ total_search_required' = FALSE
          /\ IF interrupted
             THEN /\ UNCHANGED filtered_tree
                  /\ Did("do_pending_task", "search", pending_pattern, "interrupted")
             ELSE /\ filtered_tree' =
                       Installed(
                         BuildTreeOn(SearchRoot,
                                     [tree.options EXCEPT !.pattern = pending_pattern],
                                     total_search_required, page_height))
                  /\ Did("do_pending_task", "search", pending_pattern, "built")

\* a git branch that goes on to the directory sums in the same call
FetchGitStatus_ThenSums(interrupted) ==
  /\ SetDisplayed(fetch_some_missing_dir_sum(
       [displayed_tree_mut EXCEPT !.git_status = get_tree_status(interrupted)],
       interrupted))
  /\ UNCHANGED <<pending_pattern, total_search_required>>
  /\ Did("do_pending_task", "git", "", IF interrupted THEN "interrupted" ELSE "done")

\* the branch of a missing git status
FetchGitStatus(interrupted) ==
  /\ SetDisplayed([displayed_tree_mut EXCEPT !.git_status = get_tree_status(interrupted)])
  /\ UNCHANGED <<pending_pattern, total_search_required>>
  /\ Did("do_pending_task", "git", "", IF interrupted THEN "interrupted" ELSE "done")

\* a last branch that computes no sum
FetchDirSum_Nothing(interrupted) ==
  /\ UNCHANGED <<tree, filtered_tree, pending_pattern, total_search_required>>
  /\ Did("do_pending_task", "sums", "", IF interrupted THEN "interrupted" ELSE "done")

\* the last branch: directory sums
FetchDirSum(interrupted) ==
  /\ SetDisplayed(fetch_some_missing_dir_sum(displayed_tree_mut, interrupted))
  /\ UNCHANGED <<pending_pattern, total_search_required>>
  /\ Did("do_pending_task", "sums", "", IF interrupted THEN "interrupted" ELSE "done")

do_pending_task(builderOk, interrupted) ==
  IF pending_pattern # NoPattern THEN ApplyPendingPattern(builderOk, interrupted)
  ELSE IF is_missing_git_status_computation(displayed_tree) THEN FetchGitStatus(interrupted)
  ELSE FetchDirSum(interrupted)

----------------------------------------------------------------------------
(* History of the run, read by the properties only.                        *)

History ==
  /\ prev' = Cur
  /\ lastSubmitted' =
       IF last'.op = "on_pattern" THEN last'.arg
       ELSE IF last'.op = "total_search" /\ last'.result = "Keep"
            THEN filtered_tree.options.pattern
       ELSE lastSubmitted
  /\ snap' = IF filtered_tree = NoTree /\ filtered_tree' # NoTree
             THEN [selection |-> tree.selection, scroll |-> tree.scroll]
             ELSE IF filtered_tree' = NoTree /\ ~(last'.op = "on_pattern" /\ last'.arg = NoPattern)
             THEN [selection |-> 0, scroll |-> 0]
             ELSE snap
  /\ phase' =
       IF last'.op = "on_pattern"
       THEN IF last'.arg # NoPattern THEN "submitted"
            ELSE IF phase = "submitted" THEN "cleared"
            ELSE "idle"
       ELSE IF last'.op = "do_pending_task"
            THEN IF phase = "submitted" /\ last'.result = "built" THEN "idle" ELSE phase
       ELSE "idle"
  /\ orig' = IF last'.op = "on_pattern" /\ last'.arg # NoPattern THEN tree.selection
             ELSE IF phase' = "idle" THEN 0
             ELSE orig
  /\ hist' = hist

Internals == NavInternals \cup {"back", "total_search"}
VerbInternals == VerbNavInternals \cup {"back", "total_search"}
ClickRows == 0..page_height

OnPattern == \E pat \in Patterns \cup {NoPattern} : on_pattern(pat) /\ History
OnClick == \E y \in ClickRows : on_click(y) /\ History
OnInternal == \E internal \in Internals : on_internal(internal, FALSE, TRUE) /\ History
ExecuteVerb ==
  \E internal \in VerbInternals : execute_verb(internal, FALSE, FALSE, TRUE) /\ History
DoPendingTask ==
  \E builderOk \in BOOLEAN, interrupted \in BOOLEAN :
    do_pending_task(builderOk, interrupted) /\ History

Next == OnPattern \/ OnClick \/ OnInternal \/ ExecuteVerb \/ DoPendingTask

Spec == Init /\ [][Next]_vars

----------------------------------------------------------------------------
(* The option verbs applied in a row: the same key pressed again and again *)
(* on the state the previous press produced.                               *)

MaxToggles == 2

Sorts == {"None", "Count", "Date", "Size"}

\* the options a run starts from: every sort with every setting of the options
\* a sort or the git status filter is linked to; the other five go together
StartOptions ==
  {[pattern |-> NoPattern, sort |-> c[1], show_counts |-> c[2], show_dates |-> c[3],
    show_sizes |-> c[4], show_hidden |-> c[5], filter_by_git_status |-> c[6],
    only_folders |-> c[7], respect_git_ignore |-> c[7], show_git_file_info |-> c[7],
    show_permissions |-> c[7], trim_root |-> c[7]] :
   c \in Sorts \X BOOLEAN \X BOOLEAN \X BOOLEAN \X BOOLEAN \X BOOLEAN \X BOOLEAN}

InitOptions ==
  \E options \in StartOptions :
    LET s == NewState(options, NoPattern)
    IN  /\ tree = s.tree
        /\ filtered_tree = s.filtered_tree
        /\ pending_pattern = s.pending_pattern
        /\ total_search_required = s.total_search_required
        /\ last = [op |-> "new", via |-> "new", arg |-> NoPattern, result |-> "NewState"]
        /\ prev = s
        /\ lastSubmitted = NoPattern
        /\ snap = [selection |-> 0, scroll |-> 0]
        /\ phase = "idle"
        /\ orig = 0
        /\ new_state = NoState
        /\ hist = <<>>

\* the verb just dispatched, the options it found and the options of the state
\* it returned
Applied ==
  /\ prev' = Cur
  /\ hist' = Append(hist,
       [op |-> last'.op, via |-> last'.via, ok |-> new_state' # NoState,
        before |-> displayed_tree.options,
        after  |-> IF new_state' # NoState THEN new_state'.state.options
                   ELSE displayed_tree.options])
  /\ UNCHANGED <<lastSubmitted, snap, phase, orig>>

SameKey(internal, via) ==
  hist # <<>> => internal = hist[1].op /\ via = hist[1].via

ToggleInternal ==
  \E internal \in OptionInternals, ok \in BOOLEAN :
    /\ new_state = NoState
    /\ Len(hist) < MaxToggles
    /\ SameKey(internal, "on_internal")
    /\ on_internal(internal, FALSE, ok)
    /\ Applied

ToggleVerb ==
  \E internal \in VerbToggleInternals, ok \in BOOLEAN :
    /\ new_state = NoState
    /\ Len(hist) < MaxToggles
    /\ SameKey(internal, "execute_verb")
    /\ execute_verb(internal, FALSE, FALSE, ok)
    /\ Applied

\* the application puts the state of a NewState outcome in the place of the
\* current one
ShowNewState ==
  /\ new_state # NoState
  /\ new_state.state.root = root(tree)
  /\ LET s == NewState(new_state.state.options, new_state.state.pending_pattern)
     IN  /\ tree' = s.tree
         /\ filtered_tree' = s.filtered_tree
         /\ pending_pattern' = s.pending_pattern
         /\ total_search_required' = s.total_search_required
  /\ Did("show", "app", "", "Keep")
  /\ prev' = Cur
  /\ UNCHANGED <<lastSubmitted, snap, phase, orig, hist>>

NextOptions == ToggleInternal \/ ToggleVerb \/ ShowNewState

SpecOptions == InitOptions /\ [][NextOptions]_vars

----------------------------------------------------------------------------
(* Every verb dispatched on the states a panel goes through, with the      *)
(* collaborators (tree builder, opener, clipboard, printer) failing or not.*)

\* the options of the panel: some display options set, no sizes nor git
VerbsOptions ==
  [OptionsFor(FALSE) EXCEPT !.show_hidden = TRUE, !.sort = "Date", !.show_dates = TRUE]

InitVerbs ==
  \E pat \in Patterns \cup {NoPattern} :
    LET s == NewState([VerbsOptions EXCEPT !.pattern = pat], pat)
    IN  /\ tree = s.tree
        /\ filtered_tree = s.filtered_tree
        /\ pending_pattern = s.pending_pattern
        /\ total_search_required = s.total_search_required
        /\ last = [op |-> "new", via |-> "new", arg |-> pat, result |-> "NewState"]
        /\ prev = s
        /\ lastSubmitted = pat
        /\ snap = [selection |-> 0, scroll |-> 0]
        /\ phase = "idle"
        /\ orig = 0
        /\ new_state = NoState
        /\ hist = <<>>

DispatchedInternals ==
  Internals \cup RerootInternals \cup PrintInternals \cup PanelInternals
    \cup {"copy_path", "open_leave", "quit", "toggle_hidden", "sort_by_size"}

DispatchedVerbInternals ==
  VerbInternals \cup VerbRerootInternals \cup PrintInternals
    \cup {"open_leave", "quit", "toggle_hidden"}

\* the cancellation token handed to a construction: one that cannot be
\* interrupted, one that can and was not, one that was
Dams == {"unlimited", "armed", "interrupted"}

\* the inputs an arm reads: the bang where it makes a state, the success of a
\* collaborator where it calls one
Bangs(internal) ==
  IF internal \in RerootInternals \cup OptionInternals THEN BOOLEAN ELSE {FALSE}

Oks(internal) ==
  IF internal \in RerootInternals \cup OptionInternals \cup PrintInternals
                   \cup PanelInternals \cup {"copy_path", "open_leave"}
  THEN BOOLEAN ELSE {TRUE}

\* the state is still the one of a panel: the last outcome did not end the
\* program (Quit, Launch, a fatal error, a panic), pop the state or put a new
\* state in its place
Alive ==
  /\ last.result \notin {"Quit", "Launch", "Err", "panic", "PopState"}
  /\ new_state # NoState => new_state.in_new_panel

\* the four fields before the step; the rest of the history is not followed
Before ==
  /\ prev' = Cur
  /\ UNCHANGED <<lastSubmitted, snap, phase, orig, hist>>

Click == \E y \in ClickRows : Alive /\ on_click(y) /\ Before

DoubleClick ==
  \E y \in ClickRows, ok \in BOOLEAN : Alive /\ on_double_click(y, ok) /\ Before

Tick ==
  \E builderOk \in BOOLEAN, interrupted \in BOOLEAN :
    Alive /\ do_pending_task(builderOk, interrupted) /\ Before

DispatchInternal ==
  \E internal \in DispatchedInternals :
    \E bang \in Bangs(internal), ok \in Oks(internal) :
      Alive /\ on_internal(internal, bang, ok) /\ Before

DispatchVerb ==
  \E internal \in DispatchedVerbInternals, match_error \in BOOLEAN :
    \E bang \in IF match_error THEN {FALSE} ELSE Bangs(internal),
       ok \in IF match_error THEN {TRUE} ELSE Oks(internal) :
      Alive /\ execute_verb(internal, match_error, bang, ok) /\ Before

\* the application opening a panel: BrowserState::new on a path, with a pattern
\* or none in the options, under any token
Construct ==
  \E path \in {"/q"}, pat \in {NoPattern, "x"},
     builderOk \in BOOLEAN, dam \in Dams :
    LET os == new(path, [displayed_tree.options EXCEPT !.pattern = pat],
                  builderOk, dam = "interrupted")
    IN  /\ Alive
        /\ UNCHANGED <<tree, filtered_tree, pending_pattern, total_search_required>>
        /\ last' = [op |-> "new", via |-> "app", arg |-> dam, result |-> os.kind,
                    pattern |-> pat]
        /\ new_state' = IF os.kind = "OkSome"
                        THEN [state |-> os.state, in_new_panel |-> TRUE]
                        ELSE NoState
        /\ Before

NextVerbs ==
  \/ Click \/ DoubleClick \/ Tick
  \/ DispatchInternal \/ DispatchVerb \/ Construct

SpecVerbs == InitVerbs /\ [][NextVerbs]_vars

----------------------------------------------------------------------------
(* The idle ticks of a state: patterns typed and total searches asked for, *)
(* with ticks between them.  The application calls do_pending_task again   *)
(* for as long as the state has work left and no event came in, so a tick  *)
(* that can change the state is eventually made.                           *)

\* a tick under a token that nothing interrupts
IdleTick == \E builderOk \in BOOLEAN : do_pending_task(builderOk, FALSE) /\ Before

\* a tick under a token that an event interrupts
InterruptedTick == \E builderOk \in BOOLEAN : do_pending_task(builderOk, TRUE) /\ Before

TypePattern == \E pat \in Patterns \cup {NoPattern} : on_pattern(pat) /\ Before

AskTotalSearch == on_internal("total_search", FALSE, TRUE) /\ Before

NextTicks == TypePattern \/ AskTotalSearch \/ IdleTick \/ InterruptedTick

SpecTicks == Init /\ [][NextTicks]_vars /\ WF_vars(IdleTick)

----------------------------------------------------------------------------
(* Properties.                                                             *)

IsBack(via) == last.op = "back" /\ last.via = via
BasePaths(t) == {LineAt(t, i).path : i \in Selectable(t)}

\* C1: a dispatched back does exactly one of three things: with a filtered
\* tree, drop it and Keep; else with the base selection > 0, select the root
\* and Keep; else PopState.  PopState only without a filtered tree and with
\* the selection already 0.
C1_BackThreeTiers ==
  last.op = "back" =>
    \/ /\ prev.filtered_tree # NoTree
       /\ filtered_tree = NoTree
       /\ last.result = "Keep"
    \/ /\ prev.filtered_tree = NoTree
       /\ prev.tree.selection > 0
       /\ filtered_tree = NoTree
       /\ tree.selection = 0
       /\ last.result = "Keep"
    \/ /\ prev.filtered_tree = NoTree
       /\ prev.tree.selection = 0
       /\ Cur = prev
       /\ last.result = "PopState"

\* C2 as stated: after on_internal's back on a filtered tree selecting path P,
\* there is no filtered tree and the base tree selects P, for every P.
C2_BackSelectsAnyPath ==
  (IsBack("on_internal") /\ prev.filtered_tree # NoTree) =>
    /\ filtered_tree = NoTree
    /\ selected_line(tree).path = selected_line(prev.filtered_tree).path

\* C2 amended: after on_internal's back on a filtered tree selecting path P,
\* there is no filtered tree; the base tree selects P when P is the path of a
\* selectable line of the base tree, and keeps its selection otherwise; its
\* lines and scroll are untouched.
C2_BackCarriesKnownPath ==
  (IsBack("on_internal") /\ prev.filtered_tree # NoTree) =>
    LET P == selected_line(prev.filtered_tree).path
    IN  /\ filtered_tree = NoTree
        /\ last.result = "Keep"
        /\ [tree EXCEPT !.selection = prev.tree.selection] = prev.tree
        /\ IF P \in BasePaths(prev.tree)
           THEN selected_line(tree).path = P
           ELSE tree.selection = prev.tree.selection

C2_Witness ==
  /\ IsBack("on_internal")
  /\ prev.filtered_tree # NoTree
  /\ selected_line(prev.filtered_tree).path \in BasePaths(prev.tree)
  /\ tree.selection # prev.tree.selection

\* C3: on_pattern with an empty pattern leaves no filtered tree and no
\* pending pattern, and the base tree's selection and scroll are what they
\* were just before the filtered tree came up, whatever ran on the filtered
\* tree in between.
C3_ClearRestoresBase ==
  (last.op = "on_pattern" /\ last.arg = NoPattern) =>
    /\ filtered_tree = NoTree
    /\ pending_pattern = NoPattern
    /\ tree = prev.tree
    /\ prev.filtered_tree # NoTree =>
         /\ tree.selection = snap.selection
         /\ tree.scroll = snap.scroll

C3_Witness ==
  /\ last.op = "on_pattern" /\ last.arg = NoPattern
  /\ prev.filtered_tree # NoTree
  /\ prev.filtered_tree.selection # try_select_best_match(prev.filtered_tree).selection
  /\ prev.filtered_tree.git_status = "Done"
  /\ snap.selection > 0

InterruptedSearch ==
  last.op = "do_pending_task" /\ last.via = "search" /\ last.result = "interrupted"

\* C4: an interrupted rebuild leaves the filtered tree exactly as it was,
\* present or absent.
C4_InterruptKeepsFiltered ==
  InterruptedSearch => filtered_tree = prev.filtered_tree

C4_Witness ==
  /\ InterruptedSearch
  /\ prev.filtered_tree # NoTree
  /\ prev.filtered_tree.options.pattern # last.arg

\* C5: after an interrupted rebuild the pattern is still pending, so the next
\* do_pending_task tries it again.
C5_InterruptKeepsPending ==
  InterruptedSearch =>
    /\ pending_pattern = prev.pending_pattern
    /\ pending_pattern # NoPattern

Built ==
  last.op = "do_pending_task" /\ last.via = "search" /\ last.result = "built"

\* C6: a filtered tree is only ever installed for the pattern most recently
\* submitted to the state (by on_pattern, by construction, or by total_search
\* submitting the displayed tree's pattern again): never for an older one.
C6_InstalledIsLatest ==
  /\ Built => /\ filtered_tree # NoTree
              /\ filtered_tree.options.pattern = lastSubmitted
              /\ lastSubmitted # NoPattern
  /\ (filtered_tree # NoTree /\ ~Built) =>
       /\ prev.filtered_tree # NoTree
       /\ filtered_tree.options.pattern = prev.filtered_tree.options.pattern
       /\ filtered_tree.lines = prev.filtered_tree.lines

C6_Witness ==
  /\ Built
  /\ prev.filtered_tree # NoTree
  /\ prev.filtered_tree.options.pattern # filtered_tree.options.pattern

\* C7: a non-empty pattern submitted and then cleared before any build for it
\* completed: after any number of further idle ticks there is no filtered
\* tree and the base selection is what it was when the pattern was submitted.
C7_ClearedBeforeBuilt ==
  phase = "cleared" =>
    /\ filtered_tree = NoTree
    /\ tree.selection = orig

C7_Witness ==
  /\ phase = "cleared"
  /\ last.op = "do_pending_task"
  /\ last.result = "done"
  /\ get_pending_task = "None"
  /\ orig > 0

PrevShown == IF prev.filtered_tree # NoTree THEN prev.filtered_tree ELSE prev.tree

\* the task do_pending_task performed, named as get_pending_task names tasks
PerformedTask ==
  CASE last.via = "search" -> "searching"
    [] last.via = "git"    -> "computing git status"
    [] last.via = "sums"   ->
         IF has_dir_missing_sum(PrevShown) THEN "computing stats" ELSE "None"

\* C8: do_pending_task fetches the git status only when no pattern is
\* pending, computes directory sums only when no pattern is pending and no
\* git status is missing, and performs the task get_pending_task reported.
C8_PriorityAndReport ==
  last.op = "do_pending_task" =>
    /\ last.via = "git" => prev.pending_pattern = NoPattern
    /\ last.via = "sums" =>
         /\ prev.pending_pattern = NoPattern
         /\ ~is_missing_git_status_computation(PrevShown)
    /\ get_pending_task_of(prev) = PerformedTask

SamePresence == (filtered_tree = NoTree) <=> (prev.filtered_tree = NoTree)

SelectionValid(t) == t.selection \in Indexes(t)
HasMatch(t) == \E i \in Indexes(t) : LineAt(t, i).score > 0

\* C10: the selection of the base tree, and of the filtered tree when there
\* is one, is always an index of a line of that tree; a filtered tree without
\* a matching line has selection 0.
C10_SelectionInBounds ==
  /\ SelectionValid(tree)
  /\ filtered_tree # NoTree =>
       /\ SelectionValid(filtered_tree)
       /\ ~HasMatch(filtered_tree) => filtered_tree.selection = 0

C10_Witness ==
  /\ IsBack("on_internal")
  /\ prev.filtered_tree # NoTree
  /\ prev.filtered_tree.selection >= NbLines(tree)

----------------------------------------------------------------------------
(* Option verbs.                                                           *)

\* the i-th and the next verb of the history are the same key, both returned a
\* state, and the second found the options the first left
TwiceInARow(i) ==
  /\ hist[i].ok /\ hist[i + 1].ok
  /\ hist[i + 1].op = hist[i].op /\ hist[i + 1].via = hist[i].via
  /\ hist[i + 1].before = hist[i].after

Criterion(op) ==
  CASE op = "sort_by_count" -> "Count"
    [] op = "sort_by_date"  -> "Date"
    [] op = "sort_by_size"  -> "Size"

ShowField(o, op) ==
  CASE op = "sort_by_count" -> o.show_counts
    [] op = "sort_by_date"  -> o.show_dates
    [] op = "sort_by_size"  -> o.show_sizes

AfterTwice(op, via, b) ==
  IF op \in SortInternals
  THEN LET same == b.sort = Criterion(op)
           srt  == [b EXCEPT !.sort = IF same THEN Criterion(op) ELSE "None"]
       IN  CASE op = "sort_by_count" -> [srt EXCEPT !.show_counts = same]
             [] op = "sort_by_date"  -> [srt EXCEPT !.show_dates = same]
             [] op = "sort_by_size"  -> [srt EXCEPT !.show_sizes = same]
  ELSE IF op = "toggle_git_status" /\ via = "on_internal"
  THEN [b EXCEPT !.show_hidden = TRUE]
  ELSE b

C12_SortIsTwoState ==
  \A i \in 1..Len(hist) :
    (hist[i].ok /\ hist[i].op \in SortInternals)
      => hist[i].after.sort = IF hist[i].before.sort = Criterion(hist[i].op)
                              THEN "None" ELSE Criterion(hist[i].op)

C12_Witness ==
  /\ Len(hist) = 2
  /\ hist[1].ok /\ hist[2].ok
  /\ hist[1].op = "sort_by_date" /\ hist[2].op = "sort_by_date"
  /\ hist[1].before.sort = "Size"
  /\ hist[2].before.sort = "Date"
  /\ hist[2].after.sort = "None"

----------------------------------------------------------------------------
(* Verbs that return an outcome.                                           *)

\* the arm of the open functions the selected line of the displayed tree takes
SelectedArm == OpenArm(selected_line(displayed_tree).line_type)

\* the last dispatch returned a state built on another root
Rerooted ==
  /\ last.op \in RerootInternals
  /\ last.result = "NewState"

\* C13: the state a re-root returns has the display options of the displayed
\* tree and no pattern, pending or in its tree options; open_stay_filter alone
\* hands the displayed tree's pattern over as the new pending pattern.
C13_RerootDropsPattern ==
  Rerooted =>
    /\ new_state.state.options = without_pattern(displayed_tree.options)
    /\ new_state.state.pending_pattern =
         IF last.op = "open_stay_filter" THEN displayed_tree.options.pattern
         ELSE NoPattern

\* the last operation called BrowserState::new on behalf of the application
Constructed == last.op = "new" /\ last.via = "app"

\* C14: new gives no state only under an interrupted token, a state or an error
\* under the unlimited one, and a state it gives has no filtered tree, no total
\* search required and the pattern of the options as pending pattern.
C14_NewResults ==
  /\ Constructed =>
       /\ last.result = "OkNone" => last.arg = "interrupted"
       /\ last.arg = "unlimited" => last.result \in {"OkSome", "Err"}
       /\ last.result = "OkSome" =>
            /\ new_state.state.filtered_tree = NoTree
            /\ ~new_state.state.total_search_required
            /\ new_state.state.pending_pattern = last.pattern
  /\ (last.op \in OptionInternals \cup {"parent", "up_tree"})
       => last.result \in {"NewState", "DisplayError"}

C14_Witness ==
  /\ Constructed
  /\ last.arg = "unlimited"
  /\ last.result = "OkSome"
  /\ new_state.state.pending_pattern = "x"

\* the tree builder could not be made in the last operation
BuilderFailed ==
  \/ last.op = "do_pending_task" /\ last.via = "search" /\ last.result = "error"
  \/ /\ last.arg = "failed"
     /\ \/ last.op \in OptionInternals \cup {"parent", "up_tree", "focus"}
        \/ /\ last.op \in {"open_stay", "open_stay_filter", "double_click"}
           /\ SelectedArm = "dir"

\* C15: an operation in which the tree builder cannot be made leaves the base
\* tree, the filtered tree, the pending pattern and total_search_required as
\* they were.
C15_BuilderErrorKeepsState == BuilderFailed => Cur = prev

\* C16: an invocation the verb does not accept gets DisplayError from
\* execute_verb, with no state returned and the four fields as they were.
C16_MatchErrorIsDisplayed ==
  (last.via = "execute_verb" /\ last.arg = "match_error") =>
    /\ last.result = "DisplayError"
    /\ new_state = NoState
    /\ Cur = prev

C16_Witness ==
  /\ last.via = "execute_verb" /\ last.arg = "match_error"
  /\ last.op = "line_down"
  /\ filtered_tree # NoTree
  /\ pending_pattern # NoPattern

\* the clipboard, the opener of a file or the printer failed in the last dispatch
CollaboratorFailed ==
  /\ last.arg = "failed"
  /\ \/ last.op \in PrintInternals \cup {"copy_path"}
     \/ /\ last.op \in {"open_stay", "open_stay_filter", "double_click"}
        /\ SelectedArm \in {"file", "link"}

\* C17: a failing clipboard, opener or printer gives DisplayError, never a
\* program error, and the four fields stay as they were.
C17_CollaboratorErrorIsDisplayed ==
  CollaboratorFailed => last.result = "DisplayError" /\ Cur = prev

----------------------------------------------------------------------------
(* The two trees of a state.                                               *)

\* C19: the base tree never has more lines than the page height it was built
\* for, and a filtered tree has more only when it was built as a total search:
\* every filtered tree is built by do_pending_task as total or not according to
\* total_search_required at that call.
C19_LinesWithinBudget ==
  /\ NbLines(tree) <= page_height
  /\ ~tree.total_search
  /\ filtered_tree # NoTree =>
       (NbLines(filtered_tree) > page_height => filtered_tree.total_search)
  /\ Built => filtered_tree.total_search = prev.total_search_required

C19_Witness ==
  /\ Built
  /\ prev.total_search_required
  /\ NbLines(filtered_tree) > page_height
  /\ NbLines(tree) = page_height

\* the filtered tree is not the one of the state before: there was none, or it
\* was made for another pattern or another kind of search
NewFilteredTree ==
  /\ filtered_tree # NoTree
  /\ \/ prev.filtered_tree = NoTree
     \/ prev.filtered_tree.options.pattern # filtered_tree.options.pattern
     \/ prev.filtered_tree.total_search # filtered_tree.total_search
     \/ prev.filtered_tree.lines # filtered_tree.lines

\* C20: the options of the base tree carry no pattern; the options of a
\* filtered tree carry a pattern, and a filtered tree only ever comes from
\* do_pending_task applying the pending pattern, which is that pattern.
C20_PatternOnlyInFiltered ==
  /\ tree # NoTree
  /\ tree.options.pattern = NoPattern
  /\ filtered_tree # NoTree => filtered_tree.options.pattern # NoPattern
  /\ NewFilteredTree =>
       /\ Built
       /\ prev.pending_pattern # NoPattern
       /\ filtered_tree.options.pattern = prev.pending_pattern

C20_Witness ==
  /\ NewFilteredTree
  /\ prev.filtered_tree # NoTree
  /\ filtered_tree.options.pattern = "z"
  /\ last.arg = "z"

----------------------------------------------------------------------------
(* What a dispatch may change.                                             *)

Dispatched == last.via \in {"on_internal", "execute_verb"}

NonKeepOutcomes ==
  {"NewState", "NewPanel", "PopState", "ClosePanel", "HandleInApp", "Quit",
   "DisplayError", "Launch"}

\* C21: a dispatch of an internal verb that returns anything but Keep leaves
\* the base tree, the filtered tree, the pending pattern and
\* total_search_required as they were.
C21_OnlyKeepChangesState ==
  (Dispatched /\ last.result \in NonKeepOutcomes) => Cur = prev

C21_Witness ==
  /\ Dispatched
  /\ last.op = "panel_left"
  /\ last.result = "ClosePanel"
  /\ filtered_tree # NoTree
  /\ pending_pattern # NoPattern
  /\ total_search_required

----------------------------------------------------------------------------
(* The end of the pending work.                                            *)

----------------------------------------------------------------------------
(* total_search.                                                           *)

\* C23: total_search answers DisplayError and changes nothing when there is no
\* filtered tree or when the filtered tree comes from a total search; otherwise
\* it makes the filtered tree's pattern the pending pattern, requires a total
\* search, leaves both trees as they are and answers Keep.
C23_TotalSearch ==
  last.op = "total_search" =>
    IF prev.filtered_tree = NoTree \/ prev.filtered_tree.total_search
    THEN last.result = "DisplayError" /\ Cur = prev
    ELSE /\ last.result = "Keep"
         /\ pending_pattern = prev.filtered_tree.options.pattern
         /\ total_search_required
         /\ filtered_tree = prev.filtered_tree
         /\ tree = prev.tree

C23_Witness ==
  /\ last.op = "total_search"
  /\ last.result = "Keep"
  /\ prev.pending_pattern # NoPattern
  /\ prev.pending_pattern # pending_pattern

----------------------------------------------------------------------------
(* The root of the two trees.                                              *)

----------------------------------------------------------------------------
(* Selection and scroll.                                                   *)

Moves == NavInternals \cup {"click"}

Unmoved(t) == [t EXCEPT !.selection = 0, !.scroll = 0]

\* C25: a line, page, first, last or match move and a click change nothing
\* but the selection and the scroll of the displayed tree: with a filtered
\* tree the base tree is as it was, without one there is still none.
C25_MovesActOnDisplayed ==
  last.op \in Moves =>
    /\ pending_pattern = prev.pending_pattern
    /\ total_search_required = prev.total_search_required
    /\ IF prev.filtered_tree # NoTree
       THEN /\ tree = prev.tree
            /\ filtered_tree # NoTree
            /\ Unmoved(filtered_tree) = Unmoved(prev.filtered_tree)
       ELSE /\ filtered_tree = NoTree
            /\ Unmoved(tree) = Unmoved(prev.tree)

C25_Witness ==
  /\ last.op = "click"
  /\ prev.filtered_tree # NoTree
  /\ filtered_tree.selection # prev.filtered_tree.selection
  /\ tree.selection > 0

----------------------------------------------------------------------------
(* A completed build.                                                      *)

BestScore(t) ==
  LET scores == {LineAt(t, i).score : i \in 0..(NbLines(t) - 1)}
  IN  CHOOSE m \in scores : \A k \in scores : k <= m

----------------------------------------------------------------------------
(* The pattern of a total search.                                          *)

\* C27: a total search is required only while the pending pattern is the one
\* total_search took from the filtered tree, and a completed total build is
\* for the pattern of the filtered tree it replaces.
C27_TotalOnlyForItsPattern ==
  /\ total_search_required =>
       /\ filtered_tree # NoTree
       /\ pending_pattern = filtered_tree.options.pattern
  /\ (Built /\ filtered_tree.total_search) =>
       /\ prev.filtered_tree # NoTree
       /\ filtered_tree.options.pattern = prev.filtered_tree.options.pattern

----------------------------------------------------------------------------
(* Opening a directory.                                                    *)

OpenedDir ==
  /\ last.op = "open_stay"
  /\ new_state # NoState
  /\ OpenArm(selected_line(displayed_tree).line_type) = "dir"

OpenedOn ==
  IF displayed_tree.selection > 0
  THEN new_state.state.root = target(selected_line(displayed_tree))
  ELSE new_state.state.root = path_parent(root(displayed_tree))

====
